---- MODULE Spec2Model ----
(***************************************************************************)
(* DeX-Ray analytics: the pool fetcher (scripts/fetch_data.py), the table  *)
(* helpers (scripts/analyzer.py), the chart builders                       *)
(* (scripts/visualizer.py) and the Streamlit render cycle                  *)
(* (app/dashboard.py), as state machines.                                  *)
(*                                                                         *)
(* Four specifications share the module:                                   *)
(*   SpecNorm  raw pool records -> pools_to_dataframe -> clean_numeric,    *)
(*             bar_top_volume                                              *)
(*   Spec      tables -> clean_numeric / top_pools_by_volume /             *)
(*             liquidity_vs_volume                                         *)
(*   SpecFetch get_pools against every outcome of the HTTP attempt         *)
(*   SpecDash  render cycles of the dashboard with its 60 s cache          *)
(***************************************************************************)
EXTENDS Integers, Sequences, FiniteSets, TLC

VARIABLES
    pools,      \* the list of raw pool records handed to pools_to_dataframe
    puts,       \* number of attributes put into the records so far
    df,         \* the current DataFrame, or NoTable
    res,        \* outcome of the last call: a return value or a raised exception
    last,       \* the last call and its arguments
    pc,         \* position of the script
    now,        \* wall clock of the dashboard process, in seconds
    cache,      \* st.cache_data storage of get_data: key -> entry
    cyc,        \* the render cycle in progress or just finished
    reqs,       \* number of HTTP GET attempts issued so far
    http,       \* the last call of get_pools: its arguments, the attempt's outcome, its result
    hist        \* per key: when a table was last stored, and whether a clear followed

vars == <<pools, puts, df, res, last, pc, now, cache, cyc, reqs, http, hist>>
tableVars == <<pools, puts, df, res, last>>
dashVars == <<now, cache, cyc, reqs, http, hist>>

(***************************************************************************)
(* Bounds of the model.                                                    *)
(***************************************************************************)
MaxPools == 2
MaxAttrs == 2
MaxRows == 2
MaxCols == 2
MaxTime == 80
TickStep == 20
MaxReqs == 2

(***************************************************************************)
(* Python values.  A string is a sequence of one-character strings; a      *)
(* float is n / 10^e, kept normalised (no trailing zero in the fraction).  *)
(***************************************************************************)
None == [k |-> "None", n |-> 0, e |-> 0, s |-> <<>>]
NaN == [k |-> "nan", n |-> 0, e |-> 0, s |-> <<>>]
Str(s) == [k |-> "str", n |-> 0, e |-> 0, s |-> s]
PyInt(n) == [k |-> "int", n |-> n, e |-> 0, s |-> <<>>]
Float(n, e) == [k |-> "float", n |-> n, e |-> e, s |-> <<>>]
\* a JSON integer beyond the range of a double, e.g. 10**400
HugeInt == [k |-> "hugeint", n |-> 0, e |-> 0, s |-> <<>>]
\* a JSON array or object where a scalar is expected
Container == [k |-> "container", n |-> 0, e |-> 0, s |-> <<>>]

IsMissing(c) == c.k \in {"None", "nan"}

Digits == {"0", "1", "2", "3", "4", "5", "6", "7", "8", "9"}

DigitVal(c) ==
    CASE c = "0" -> 0 [] c = "1" -> 1 [] c = "2" -> 2 [] c = "3" -> 3
      [] c = "4" -> 4 [] c = "5" -> 5 [] c = "6" -> 6 [] c = "7" -> 7
      [] c = "8" -> 8 [] c = "9" -> 9

DigitChar(d) ==
    CASE d = 0 -> "0" [] d = 1 -> "1" [] d = 2 -> "2" [] d = 3 -> "3"
      [] d = 4 -> "4" [] d = 5 -> "5" [] d = 6 -> "6" [] d = 7 -> "7"
      [] d = 8 -> "8" [] d = 9 -> "9"

RECURSIVE Pow10(_)
Pow10(e) == IF e = 0 THEN 1 ELSE 10 * Pow10(e - 1)

RECURSIVE Normalise(_, _)
Normalise(n, e) ==
    IF e > 0 /\ n % 10 = 0 THEN Normalise(n \div 10, e - 1) ELSE Float(n, e)

\* value of a digit string, most significant digit first
RECURSIVE DigitsVal(_)
DigitsVal(s) ==
    IF s = <<>> THEN 0
    ELSE 10 * DigitsVal(SubSeq(s, 1, Len(s) - 1)) + DigitVal(s[Len(s)])

\* str(n) for an int n >= 0
RECURSIVE IntStr(_)
IntStr(n) ==
    IF n < 10 THEN <<DigitChar(n)>>
    ELSE IntStr(n \div 10) \o <<DigitChar(n % 10)>>

\* the string without its characters equal to c
RECURSIVE Without(_, _)
Without(s, c) ==
    IF s = <<>> THEN <<>>
    ELSE (IF Head(s) = c THEN <<>> ELSE <<Head(s)>>) \o Without(Tail(s), c)

(***************************************************************************)
(* float(str): decimal digits with at most one decimal point and at least  *)
(* one digit; anything else is a ValueError.                               *)
(***************************************************************************)
ParsesAsFloat(s) ==
    LET d == Without(s, ".")
    IN  /\ d # <<>>
        /\ Len(s) - Len(d) <= 1
        /\ \A i \in 1..Len(d) : d[i] \in Digits

PointPos(s) == IF \E i \in 1..Len(s) : s[i] = "."
               THEN CHOOSE i \in 1..Len(s) : s[i] = "."
               ELSE Len(s)

ParseFloat(s) == Normalise(DigitsVal(Without(s, ".")), Len(s) - PointPos(s))

\* float(value) of Python: the value, or the exception it raises
PyFloat(v) ==
    CASE v.k = "str" -> IF ParsesAsFloat(v.s)
                        THEN [exc |-> "", val |-> ParseFloat(v.s)]
                        ELSE [exc |-> "ValueError", val |-> None]
      [] v.k = "int" -> [exc |-> "", val |-> Float(v.n, 0)]
      [] v.k = "float" -> [exc |-> "", val |-> v]
      [] v.k = "nan" -> [exc |-> "", val |-> NaN]
      [] v.k = "hugeint" -> [exc |-> "OverflowError", val |-> None]
      [] OTHER -> [exc |-> "TypeError", val |-> None]

\* fetch_data._f: "safe float conversion"
_f(value) ==
    IF value = None THEN [exc |-> "", val |-> None]
    ELSE LET r == PyFloat(value)
         IN  IF r.exc \in {"TypeError", "ValueError"}
             THEN [exc |-> "", val |-> None]
             ELSE r

\* format(value, "") inside an f-string, for None, str and int values
Format(v) ==
    CASE v.k = "None" -> <<"N", "o", "n", "e">>
      [] v.k = "str" -> v.s
      [] v.k = "int" -> IntStr(v.n)

(***************************************************************************)
(* Dictionaries and DataFrames.  A dict is a function on its keys.  A      *)
(* DataFrame has ordered column labels, an index label per row and rows    *)
(* that are functions from the column labels to cells.                     *)
(***************************************************************************)
EmptyDict == [x \in {} |-> None]
DictGet(d, key) == IF key \in DOMAIN d THEN d[key] ELSE None
DictPut(d, key, v) ==
    [x \in DOMAIN d \cup {key} |-> IF x = key THEN v ELSE d[x]]

Range(s) == {s[i] : i \in 1..Len(s)}
NoTable == [cols |-> <<>>, index |-> <<>>, rows |-> <<>>]
ColSet(t) == Range(t.cols)
Column(t, c) == [i \in 1..Len(t.rows) |-> t.rows[i][c]]
RangeIndex(n) == [i \in 1..n |-> i - 1]

\* the curated record built for one pool, in key order
Columns == <<"pool_id", "pair", "dex_name", "network", "price_usd",
             "volume_usd_24h", "volume_usd_7d", "tvl_usd", "price_change_24h">>

\* pandas turns None into NaN in a column that holds at least one float and
\* nothing but floats and None; other columns keep their objects
Coerced(rows, c) ==
    LET cells == {rows[i][c] : i \in 1..Len(rows)}
    IN  /\ \A x \in cells : x.k \in {"None", "nan", "float"}
        /\ \E x \in cells : x.k \in {"nan", "float"}

\* pd.DataFrame(records) for a list of dicts with the same keys
DataFrame(records, keys) ==
    IF records = <<>> THEN NoTable
    ELSE [cols |-> keys,
          index |-> RangeIndex(Len(records)),
          rows |-> [i \in 1..Len(records) |->
                      [c \in Range(keys) |->
                          IF records[i][c] = None /\ Coerced(records, c)
                          THEN NaN ELSE records[i][c]]]]

(***************************************************************************)
(* fetch_data.pools_to_dataframe                                           *)
(***************************************************************************)
\* a raw pool object: "id" and "attributes" may each be missing, and
\* "attributes" may be JSON null
RawPool(hasId, id, attributes, attrs) ==
    [hasId |-> hasId, id |-> id, attributes |-> attributes, attrs |-> attrs]

\* the exception raised while building the record of one pool, "" if none
RecordExc(item) ==
    IF item.attributes = "null" THEN "AttributeError"
    ELSE LET bad == {key \in {"price_usd", "volume_usd_24h", "volume_usd_7d",
                              "reserve_usd", "price_percent_change_24h"} :
                        _f(DictGet(item.attrs, key)).exc # ""}
         IN  IF bad = {} THEN "" ELSE _f(DictGet(item.attrs, CHOOSE key \in bad : TRUE)).exc

\* the dict appended to records for one pool
Record(item) ==
    LET attrs == item.attrs
        token_a == DictGet(attrs, "token_a_symbol")
        token_b == DictGet(attrs, "token_b_symbol")
    IN  [c \in Range(Columns) |->
          CASE c = "pool_id" -> IF item.hasId THEN item.id ELSE None
            [] c = "pair" -> Str(Format(token_a) \o <<"/">> \o Format(token_b))
            [] c = "dex_name" -> DictGet(attrs, "dex_name")
            [] c = "network" -> DictGet(attrs, "network")
            [] c = "price_usd" -> _f(DictGet(attrs, "price_usd")).val
            [] c = "volume_usd_24h" -> _f(DictGet(attrs, "volume_usd_24h")).val
            [] c = "volume_usd_7d" -> _f(DictGet(attrs, "volume_usd_7d")).val
            [] c = "tvl_usd" -> _f(DictGet(attrs, "reserve_usd")).val
            [] c = "price_change_24h" -> _f(DictGet(attrs, "price_percent_change_24h")).val]

Returned(t) == [kind |-> "return", exc |-> "", msg |-> <<>>, table |-> t]
Raised(exc, msg) == [kind |-> "raise", exc |-> exc, msg |-> msg, table |-> NoTable]
NoResult == [kind |-> "none", exc |-> "", msg |-> <<>>, table |-> NoTable]

pools_to_dataframe(ps) ==
    LET bad == {i \in 1..Len(ps) : RecordExc(ps[i]) # ""}
    IN  IF bad # {}
        THEN Raised(RecordExc(ps[CHOOSE i \in bad : \A j \in bad : i <= j]), <<>>)
        ELSE Returned(DataFrame([i \in 1..Len(ps) |-> Record(ps[i])], Columns))

(***************************************************************************)
(* analyzer.py                                                             *)
(***************************************************************************)
\* a conversion that parses strings and gives up on everything else
to_numeric_strings_only(c) ==
    IF c.k = "str" /\ ParsesAsFloat(c.s) THEN ParseFloat(c.s) ELSE NaN

\* pd.to_numeric(..., errors="coerce") on one cell
to_numeric(c) ==
    CASE c.k = "float" -> c
      [] c.k = "int" -> Float(c.n, 0)
      [] c.k = "str" -> IF ParsesAsFloat(c.s) THEN ParseFloat(c.s) ELSE NaN
      [] OTHER -> NaN

\* df[col] = pd.to_numeric(df[col], errors="coerce")
SetNumeric(t, col) ==
    [t EXCEPT !.rows = [i \in 1..Len(t.rows) |->
                          [c \in ColSet(t) |->
                              IF c = col THEN to_numeric(t.rows[i][c])
                              ELSE t.rows[i][c]]]]

RECURSIVE clean_numeric(_, _)
clean_numeric(t, cols) ==
    IF cols = <<>> THEN t
    ELSE clean_numeric(
             IF Head(cols) \in ColSet(t) THEN SetNumeric(t, Head(cols)) ELSE t,
             Tail(cols))

\* a < b for two floats
Less(a, b) == a.n * Pow10(b.e) < b.n * Pow10(a.e)

Perms(n) == {p \in [1..n -> 1..n] : \A i, j \in 1..n : p[i] = p[j] => i = j}

\* the order of ascending=True
Ascending(cells) ==
    \A i, j \in 1..Len(cells) :
        i < j => /\ IsMissing(cells[i]) => IsMissing(cells[j])
                 /\ ~IsMissing(cells[i]) /\ ~IsMissing(cells[j])
                        => ~Less(cells[j], cells[i])

\* the order sort_values(col, ascending=False) leaves the cells of col in:
\* no cell before a larger one, missing values last (na_position="last")
Descending(cells) ==
    \A i, j \in 1..Len(cells) :
        i < j => /\ IsMissing(cells[i]) => IsMissing(cells[j])
                 /\ ~IsMissing(cells[i]) /\ ~IsMissing(cells[j])
                        => ~Less(cells[i], cells[j])

Permuted(t, p) ==
    [t EXCEPT !.index = [i \in 1..Len(t.rows) |-> t.index[p[i]]],
              !.rows = [i \in 1..Len(t.rows) |-> t.rows[p[i]]]]

\* df.sort_values(col, ascending=False): the default quicksort is not
\* stable, so every descending arrangement of the rows is a possible result
sort_values_desc(t, col) ==
    {s \in {Permuted(t, p) : p \in Perms(Len(t.rows))} : Descending(Column(s, col))}

\* df.head(n): the first n rows, or all but the last -n for a negative n
head(t, n) ==
    LET m == IF n >= 0 THEN (IF n < Len(t.rows) THEN n ELSE Len(t.rows))
             ELSE (IF Len(t.rows) + n > 0 THEN Len(t.rows) + n ELSE 0)
    IN  [t EXCEPT !.index = SubSeq(t.index, 1, m), !.rows = SubSeq(t.rows, 1, m)]

reset_index(t) == [t EXCEPT !.index = RangeIndex(Len(t.rows))]

\* the possible outcomes of top_pools_by_volume(df, n)
top_pools_by_volume(t, n) ==
    IF "volume_usd_24h" \notin ColSet(t)
    THEN {Raised("KeyError", <<"volume_usd_24h">>)}
    ELSE {Returned(reset_index(head(s, n))) : s \in sort_values_desc(t, "volume_usd_24h")}

required == <<"pool_name", "tvl_usd", "volume_usd_24h", "price_change_pct_24h">>

\* df[cols]
Project(t, cols) ==
    [t EXCEPT !.cols = cols,
              !.rows = [i \in 1..Len(t.rows) |-> [c \in Range(cols) |-> t.rows[i][c]]]]

\* a check that stops at the first missing column
liquidity_vs_volume_first_missing(t) ==
    LET missing == SelectSeq(required, LAMBDA c : c \notin ColSet(t))
    IN  IF missing # <<>> THEN Raised("KeyError", <<Head(missing)>>)
        ELSE Returned(Project(t, required))

\* the message of the KeyError is "Missing columns: " followed by the
\* missing names joined by ", "; msg holds the names joined
liquidity_vs_volume(t) ==
    LET missing == SelectSeq(required, LAMBDA c : c \notin ColSet(t))
    IN  IF missing # <<>> THEN Raised("KeyError", missing)
        ELSE Returned(Project(t, required))

(***************************************************************************)
(* visualizer.py                                                           *)
(***************************************************************************)
\* px.bar / px.scatter refuse a column argument that names no column
PxCheck(t, args) ==
    LET bad == SelectSeq(args, LAMBDA c : c \notin ColSet(t))
    IN  IF bad # <<>> THEN Raised("ValueError", <<Head(bad)>>) ELSE Returned(t)

\* the possible outcomes of bar_top_volume(df, n); the table of a returned
\* result is the data the figure is drawn from
bar_top_volume(t, n) ==
    IF "volume_usd_24h" \notin ColSet(t)
    THEN {Raised("KeyError", <<"volume_usd_24h">>)}
    ELSE {PxCheck(head(s, n), <<"pair", "volume_usd_24h", "tvl_usd">>) :
             s \in sort_values_desc(t, "volume_usd_24h")}

BubbleN == 25

bubble_tvl_vs_volume(t, n) ==
    IF "tvl_usd" \notin ColSet(t)
    THEN {Raised("KeyError", <<"tvl_usd">>)}
    ELSE {PxCheck(head(s, n), <<"tvl_usd", "volume_usd_24h", "price_change_pct_24h",
                                "price_change_pct_24h", "pair">>) :
             s \in sort_values_desc(t, "tvl_usd")}

(***************************************************************************)
(* Inputs.                                                                 *)
(***************************************************************************)
\* tests/test_core.py: the pool payload of the test suite
sample_pool ==
    RawPool(TRUE, Str(<<"e", "t", "h", "0", "x", "1", "2", "3">>), "map",
        [key \in {"address", "token0_symbol", "token1_symbol", "reserve_in_usd",
                  "volume_usd_24h", "price_usd", "price_change_percentage_24h"} |->
            CASE key = "address" -> Str(<<"0", "x", "1", "2", "3", ".", ".", ".">>)
              [] key = "token0_symbol" -> Str(<<"A", "A", "A">>)
              [] key = "token1_symbol" -> Str(<<"B", "B", "B">>)
              [] key = "reserve_in_usd" -> Str(<<"1", "0", "0", "0", "0", "0">>)
              [] key = "volume_usd_24h" -> Str(<<"5", "0", "0", "0", "0">>)
              [] key = "price_usd" -> Str(<<"1", ".", "5">>)
              [] key = "price_change_percentage_24h" -> Str(<<"2", ".", "3">>)])

\* attribute names: those pools_to_dataframe reads and those of sample_pool
TextKeys == {"token_a_symbol", "token_b_symbol", "token0_symbol", "token1_symbol",
             "dex_name", "network", "address"}
NumericKeys == {"price_usd", "volume_usd_24h", "volume_usd_7d", "reserve_usd",
                "price_percent_change_24h", "reserve_in_usd",
                "price_change_percentage_24h"}
TextValues == {None, Str(<<"A">>), Str(<<"B">>)}
NumericValues == {None, Str(<<"7">>), Str(<<"2", ".", "5", "0">>), Str(<<"x">>),
                  PyInt(3), HugeInt, Container}

NoCall == [name |-> "", n |-> 0, cols |-> <<>>]
Call(name, n, cols) == [name |-> name, n |-> n, cols |-> cols]

\* fetch_data.get_pools / _request results: a list of pools or an exception
\* with its __cause__
Got(data) == [kind |-> "return", exc |-> "", cause |-> "", data |-> data]
Failed(exc, cause) == [kind |-> "raise", exc |-> exc, cause |-> cause, data |-> <<>>]

NoOutcome == [kind |-> "none", exc |-> "", hasData |-> FALSE, data |-> <<>>]
NoEntry == [at |-> -1, cleared |-> FALSE, table |-> NoTable]
IdleCycle ==
    [stage |-> "idle", key |-> <<"", 0>>, button |-> FALSE, hit |-> FALSE,
     t |-> 0, reqs0 |-> 0, h0 |-> NoEntry]
NoExchange ==
    [network |-> "", limit |-> 0, page |-> 0, reqs0 |-> 0,
     outcome |-> NoOutcome, got |-> Got(<<>>)]

DashIdle ==
    /\ now = 0
    /\ cache = EmptyDict
    /\ cyc = IdleCycle
    /\ reqs = 0
    /\ http = NoExchange
    /\ hist = EmptyDict

(***************************************************************************)
(* SpecNorm: a script that assembles raw pool records, converts them and   *)
(* hands the table to the helpers the dashboard and the tests call.        *)
(***************************************************************************)
InitNorm ==
    /\ pools \in {<<>>, <<sample_pool>>}
    /\ puts = 0
    /\ df = NoTable
    /\ res = NoResult
    /\ last = NoCall
    /\ pc = "build"
    /\ DashIdle

AddPool(hasId, attributes) ==
    /\ pc = "build"
    /\ Len(pools) < MaxPools
    /\ pools' = Append(pools, RawPool(hasId, IF hasId THEN Str(<<"p">>) ELSE None,
                                      attributes, EmptyDict))
    /\ UNCHANGED <<puts, df, res, last, pc, dashVars>>

PutAttr(key, v) ==
    /\ pc = "build"
    /\ pools # <<>>
    /\ pools[Len(pools)].attributes = "map"
    /\ puts < MaxAttrs
    /\ pools' = [pools EXCEPT ![Len(pools)].attrs = DictPut(@, key, v)]
    /\ puts' = puts + 1
    /\ UNCHANGED <<df, res, last, pc, dashVars>>

PoolsToDataframe ==
    /\ pc = "build"
    /\ res' = pools_to_dataframe(pools)
    /\ df' = res'.table
    /\ last' = Call("pools_to_dataframe", 0, <<>>)
    /\ pc' = IF res'.kind = "return" THEN "frame" ELSE "raised"
    /\ UNCHANGED <<pools, puts, dashVars>>

\* the column lists clean_numeric is called with: get_data of the dashboard,
\* the smoke tests of analyzer.py and visualizer.py, and test_core.py
DashboardCols == <<"tvl_usd", "volume_usd_24h", "price_change_percentage_24h">>
SmokeCols == <<"tvl_usd", "volume_usd_24h", "price_change_pct_24h">>
TestCols == <<"tvl_usd", "volume_usd_24h", "price_usd", "price_change_pct_24h">>

\* the n bar_top_volume is called with by test_core.py and by the dashboard
TestN == 1
DashboardN == 10

CleanNumericNorm(cols) ==
    /\ pc = "frame"
    /\ df' = clean_numeric(df, cols)
    /\ res' = Returned(df')
    /\ last' = Call("clean_numeric", 0, cols)
    /\ pc' = "clean"
    /\ UNCHANGED <<pools, puts, dashVars>>

BarTopVolumeNorm(n) ==
    /\ pc \in {"frame", "clean"}
    /\ res' \in bar_top_volume(df, n)
    /\ last' = Call("bar_top_volume", n, <<>>)
    /\ pc' = "done"
    /\ UNCHANGED <<pools, puts, df, dashVars>>

NextNorm ==
    \/ \E hasId \in BOOLEAN, attributes \in {"absent", "null", "map"} :
           AddPool(hasId, attributes)
    \/ \E key \in TextKeys, v \in TextValues : PutAttr(key, v)
    \/ \E key \in NumericKeys, v \in NumericValues : PutAttr(key, v)
    \/ PoolsToDataframe
    \/ \E cols \in {DashboardCols, TestCols} : CleanNumericNorm(cols)
    \/ \E n \in {TestN, DashboardN} : BarTopVolumeNorm(n)

SpecNorm == InitNorm /\ [][NextNorm]_vars

(***************************************************************************)
(* Claims about pools_to_dataframe and the helpers fed by it (SpecNorm).   *)
(***************************************************************************)
Framed == last.name = "pools_to_dataframe" /\ res.kind = "return"

\* the columns tests/test_core.py expects of every converted table
ExpectedColumns == {"pool_id", "pair", "tvl_usd", "volume_usd_24h", "price_usd",
                    "price_change_pct_24h"}

\* C1: a list of N raw pool records is converted to a table of exactly N
\* rows whose column set is the one fixed curated set, and that set holds
\* pool_id, pair, tvl_usd, volume_usd_24h, price_usd and price_change_pct_24h.
C1_RowsAndColumns ==
    Framed => /\ Len(df.rows) = Len(pools)
              /\ ColSet(df) = Range(Columns)
              /\ ExpectedColumns \subseteq ColSet(df)

IsNumericStr(v) == v.k = "str" /\ ParsesAsFloat(v.s)

\* C2: a record whose attributes carry token0_symbol = a, token1_symbol = b,
\* reserve_in_usd = r and volume_usd_24h = v (r, v numeric-looking strings)
\* yields a row with pair = "a/b", tvl_usd = float(r), volume_usd_24h =
\* float(v); the sample record yields AAA/BBB, 100000.0 and 50000.0.
C2_SampleRow ==
    Framed =>
        \A i \in 1..Len(pools) :
            LET a == pools[i].attrs
            IN  ( /\ {"token0_symbol", "token1_symbol", "reserve_in_usd",
                      "volume_usd_24h"} \subseteq DOMAIN a
                  /\ a["token0_symbol"].k = "str"
                  /\ a["token1_symbol"].k = "str"
                  /\ IsNumericStr(a["reserve_in_usd"])
                  /\ IsNumericStr(a["volume_usd_24h"]) )
                => /\ df.rows[i]["pair"] =
                        Str(a["token0_symbol"].s \o <<"/">> \o a["token1_symbol"].s)
                   /\ df.rows[i]["tvl_usd"] = ParseFloat(a["reserve_in_usd"].s)
                   /\ df.rows[i]["volume_usd_24h"] = ParseFloat(a["volume_usd_24h"].s)
                   /\ (pools[i] = sample_pool =>
                         /\ df.rows[i]["pair"] = Str(<<"A", "A", "A", "/", "B", "B", "B">>)
                         /\ df.rows[i]["tvl_usd"] = Float(100000, 0)
                         /\ df.rows[i]["volume_usd_24h"] = Float(50000, 0))

\* C7: on a table produced by the normalizer, bar_top_volume with n greater
\* than the row count (a table of zero rows included) returns a chart built
\* from all the rows and does not fail.
C7_BarBeyondRowCount ==
    (last.name = "bar_top_volume" /\ last.n > Len(df.rows))
        => res.kind = "return" /\ Len(res.table.rows) = Len(df.rows)

\* the attribute each numeric column is read from
SourceKey(c) ==
    CASE c = "price_usd" -> "price_usd"
      [] c = "volume_usd_24h" -> "volume_usd_24h"
      [] c = "volume_usd_7d" -> "volume_usd_7d"
      [] c = "tvl_usd" -> "reserve_usd"
      [] c = "price_change_24h" -> "price_percent_change_24h"

NumericColumns == {"price_usd", "volume_usd_24h", "volume_usd_7d", "tvl_usd",
                   "price_change_24h"}

\* C9: pools_to_dataframe never raises on records whose attributes map is
\* absent, empty or partial and whose numeric fields hold values that cannot
\* be converted to a number: it returns, and each such cell is missing.
C9_NeverRaises ==
    ( /\ last.name = "pools_to_dataframe"
      /\ \A i \in 1..Len(pools) : pools[i].attributes \in {"absent", "map"} )
    => /\ res.kind = "return"
       /\ \A i \in 1..Len(pools), c \in NumericColumns :
              LET v == DictGet(pools[i].attrs, SourceKey(c))
              IN  (v = None \/ PyFloat(v).exc # "") => IsMissing(df.rows[i][c])

(***************************************************************************)
(* Spec: the analyzer helpers on pool tables.  A table has any subset of   *)
(* the columns below and up to MaxRows rows; pool_name and pair are text   *)
(* (a string or None, the same in both), the other columns are numeric (a  *)
(* float or NaN, the same in the three of them).                           *)
(***************************************************************************)
TableCols == <<"pool_name", "pair", "tvl_usd", "volume_usd_24h", "price_change_pct_24h">>
TextCols == {"pool_name", "pair"}
TextCells == {None, Str(<<"2", ".", "5", "0">>), Str(<<"x">>)}
NumCells == {NaN, Float(1, 0), Float(2, 0)}

Table(colset, text, num) ==
    [cols |-> SelectSeq(TableCols, LAMBDA c : c \in colset),
     index |-> RangeIndex(Len(text)),
     rows |-> [i \in 1..Len(text) |->
                 [c \in colset |-> IF c \in TextCols THEN text[i] ELSE num[i]]]]

Tables ==
    UNION {{Table(colset, text, num) :
                colset \in SUBSET Range(TableCols),
                text \in [1..m -> TextCells],
                num \in [1..m -> NumCells]} : m \in 0..MaxRows}

\* the column lists handed to clean_numeric: up to MaxCols names, a name the
\* table never has among them, and the list of the smoke test
CleanNames == {"pool_name", "no_such_column"}
ColLists ==
    {SmokeCols} \cup UNION {[1..m -> CleanNames] : m \in 0..MaxCols}

Init ==
    /\ pools = <<>>
    /\ puts = 0
    /\ df \in Tables
    /\ res = NoResult
    /\ last = NoCall
    /\ pc = "table"
    /\ DashIdle

CleanNumeric(cols) ==
    /\ pc = "table"
    /\ df' = clean_numeric(df, cols)
    /\ res' = Returned(df')
    /\ last' = Call("clean_numeric", 0, cols)
    /\ pc' = "done"
    /\ UNCHANGED <<pools, puts, dashVars>>

TopPoolsByVolume(n) ==
    /\ pc = "table"
    /\ res' \in top_pools_by_volume(df, n)
    /\ last' = Call("top_pools_by_volume", n, <<>>)
    /\ pc' = "done"
    /\ UNCHANGED <<pools, puts, df, dashVars>>

LiquidityVsVolume ==
    /\ pc = "table"
    /\ res' = liquidity_vs_volume(df)
    /\ last' = Call("liquidity_vs_volume", 0, <<>>)
    /\ pc' = "done"
    /\ UNCHANGED <<pools, puts, df, dashVars>>

Next ==
    \/ \E cols \in ColLists : CleanNumeric(cols)
    \/ \E n \in (-1)..(MaxRows + 1) : TopPoolsByVolume(n)
    \/ LiquidityVsVolume

Spec == Init /\ [][Next]_vars

(***************************************************************************)
(* Claims about the analyzer helpers (Spec).                               *)
(***************************************************************************)
Min(a, b) == IF a < b THEN a ELSE b

\* no cell is followed, anywhere later, by a larger one
NonIncreasing(cells) ==
    \A i, j \in 1..Len(cells) :
        (i < j /\ ~IsMissing(cells[i]) /\ ~IsMissing(cells[j]))
            => ~Less(cells[i], cells[j])

\* C4: for n >= 0, top_pools_by_volume returns rows of the table ordered by
\* non-increasing volume_usd_24h, exactly min(n, rowCount) of them,
\* re-indexed 0..k-1; without a volume_usd_24h column it raises KeyError.
C4_TopPools ==
    (last.name = "top_pools_by_volume" /\ last.n >= 0) =>
        IF "volume_usd_24h" \notin ColSet(df)
        THEN res.kind = "raise" /\ res.exc = "KeyError"
        ELSE /\ res.kind = "return"
             /\ NonIncreasing(Column(res.table, "volume_usd_24h"))
             /\ Len(res.table.rows) = Min(last.n, Len(df.rows))
             /\ res.table.index = RangeIndex(Len(res.table.rows))
             /\ res.table.cols = df.cols
             /\ Range(res.table.rows) \subseteq Range(df.rows)

\* a table whose two rows had to be swapped, both returned
C4_Witness ==
    /\ last.name = "top_pools_by_volume"
    /\ res.kind = "return"
    /\ Len(df.rows) = 2 /\ Len(res.table.rows) = 2
    /\ Less(df.rows[1]["volume_usd_24h"], df.rows[2]["volume_usd_24h"])
    /\ res.table.rows[1] = df.rows[2]

\* C5: liquidity_vs_volume raises a KeyError naming every required column
\* the table lacks, and no column it has, when one is missing; otherwise it
\* returns the same rows with exactly the four required columns.
C5_Liquidity ==
    last.name = "liquidity_vs_volume" =>
        LET missing == {c \in Range(required) : c \notin ColSet(df)}
        IN  IF missing # {}
            THEN /\ res.kind = "raise" /\ res.exc = "KeyError"
                 /\ Range(res.msg) = missing
            ELSE /\ res.kind = "return"
                 /\ res.table.cols = required
                 /\ res.table.index = df.index
                 /\ Len(res.table.rows) = Len(df.rows)
                 /\ \A i \in 1..Len(df.rows) :
                        /\ DOMAIN res.table.rows[i] = Range(required)
                        /\ \A c \in Range(required) :
                               res.table.rows[i][c] = df.rows[i][c]

\* two columns missing and one required column present
C5_Witness ==
    /\ last.name = "liquidity_vs_volume"
    /\ res.kind = "raise"
    /\ Len(res.msg) = 2
    /\ "tvl_usd" \in ColSet(df)
    /\ Len(df.rows) > 0

\* C6: clean_numeric is idempotent: cleaning the cleaned table again with
\* the same column list (names of absent columns included, which are
\* skipped) changes nothing.
C6_CleanIdempotent ==
    last.name = "clean_numeric" =>
        /\ res.kind = "return"
        /\ clean_numeric(df, last.cols) = df

\* a list naming an absent column, and a string cell that became a float
C6_Witness ==
    /\ last.name = "clean_numeric"
    /\ "no_such_column" \in Range(last.cols)
    /\ "pool_name" \in ColSet(df)
    /\ \E i \in 1..Len(df.rows) : df.rows[i]["pool_name"] = Float(25, 1)
    /\ \E i \in 1..Len(df.rows) : df.rows[i]["pool_name"] = NaN

(***************************************************************************)
(* fetch_data._request and get_pools.  The single requests.get attempt     *)
(* ends in a transport failure (a requests.RequestException), in a 4xx or  *)
(* 5xx status (raise_for_status raises HTTPError), or in a 2xx response    *)
(* whose body is a JSON object with or without a "data" member.            *)
(***************************************************************************)
Transport(exc) == [kind |-> "transport", exc |-> exc, hasData |-> FALSE, data |-> <<>>]
Status(class) == [kind |-> class, exc |-> "", hasData |-> FALSE, data |-> <<>>]
Body(hasData, data) == [kind |-> "2xx", exc |-> "", hasData |-> hasData, data |-> data]

\* lets the exception of requests through unwrapped
_request_unwrapped(outcome) ==
    CASE outcome.kind = "transport" -> Failed(outcome.exc, "")
      [] outcome.kind \in {"4xx", "5xx"} -> Failed("HTTPError", "")
      [] outcome.kind = "2xx" -> Got(outcome)

\* _request: the parsed body, or RuntimeError raised from the cause
_request(outcome) ==
    CASE outcome.kind = "transport" -> Failed("RuntimeError", outcome.exc)
      [] outcome.kind \in {"4xx", "5xx"} -> Failed("RuntimeError", "HTTPError")
      [] outcome.kind = "2xx" -> Got(outcome)

\* get_pools: data.get("data", [])
get_pools(outcome) ==
    LET r == _request(outcome)
    IN  IF r.kind = "raise" THEN r
        ELSE Got(IF r.data.hasData THEN r.data.data ELSE <<>>)

(***************************************************************************)
(* app/dashboard.py: get_data behind st.cache_data(ttl=REFRESH_INTERVAL),  *)
(* the refresh logic and the two charts of one script run.                 *)
(***************************************************************************)
REFRESH_INTERVAL == 60

\* the body of get_data: fetch, convert, clean
get_data(outcome) ==
    LET g == get_pools(outcome)
    IN  IF g.kind = "raise" THEN Raised(g.exc, <<g.cause>>)
        ELSE LET f == pools_to_dataframe(g.data)
             IN  IF f.kind = "raise" THEN f
                 ELSE Returned(clean_numeric(f.table, DashboardCols))

\* st.session_state.get("auto_update", False): nothing ever sets the key
auto_update == FALSE

\* the condition under which the script clears the cache
ClearsCache(refresh_button, auto_refresh) ==
    refresh_button \/ (auto_refresh /\ auto_update)

\* a lookup that never expires an entry
CacheHitNoTtl(c, key, t) == key \in DOMAIN c

\* st.cache_data lookup: an entry stored for the same arguments less than
\* ttl seconds ago
CacheHit(c, key, t) == key \in DOMAIN c /\ t < c[key].at + REFRESH_INTERVAL

Cleared(h) == [key \in DOMAIN h |-> [h[key] EXCEPT !.cleared = TRUE]]

Tick ==
    /\ now + TickStep <= MaxTime
    /\ now' = now + TickStep
    /\ UNCHANGED <<tableVars, pc, cache, cyc, reqs, http, hist>>

\* one script run down to df = get_data(network, limit)
Render(network, limit, refresh_button, auto_refresh, outcome) ==
    LET key == <<network, limit>>
        clear == ClearsCache(refresh_button, auto_refresh)
        c1 == IF clear THEN EmptyDict ELSE cache
        h1 == IF clear THEN Cleared(hist) ELSE hist
        hit == CacheHit(c1, key, now)
    IN  /\ cyc.stage \in {"idle", "done", "error"}
        /\ hit \/ reqs < MaxReqs
        /\ hit => outcome = NoOutcome
        /\ ~hit => outcome # NoOutcome
        /\ reqs' = IF hit THEN reqs ELSE reqs + 1
        /\ res' = IF hit THEN Returned(c1[key].table) ELSE get_data(outcome)
        /\ LET r == res'
               stored == ~hit /\ r.kind = "return"
           IN
           /\ cache' = IF stored
                       THEN DictPut(c1, key, [at |-> now, table |-> r.table])
                       ELSE c1
           /\ hist' = IF stored
                      THEN DictPut(h1, key, [at |-> now, cleared |-> FALSE, table |-> r.table])
                      ELSE h1
           /\ df' = r.table
           /\ cyc' = [stage |-> IF r.kind = "return" THEN "data" ELSE "error",
                      key |-> key, button |-> refresh_button, hit |-> hit, t |-> now,
                      reqs0 |-> reqs,
                      h0 |-> IF key \in DOMAIN hist THEN hist[key] ELSE NoEntry]
        /\ last' = Call("get_data", 0, <<>>)
        /\ UNCHANGED <<pools, puts, pc, now, http>>

BarChart ==
    /\ cyc.stage = "data"
    /\ res' \in bar_top_volume(df, DashboardN)
    /\ last' = Call("bar_top_volume", DashboardN, <<>>)
    /\ cyc' = [cyc EXCEPT !.stage = IF res'.kind = "return" THEN "bar" ELSE "error"]
    /\ UNCHANGED <<pools, puts, df, pc, now, cache, reqs, http, hist>>

BubbleChart ==
    /\ cyc.stage = "bar"
    /\ res' \in bubble_tvl_vs_volume(df, BubbleN)
    /\ last' = Call("bubble_tvl_vs_volume", BubbleN, <<>>)
    /\ cyc' = [cyc EXCEPT !.stage = IF res'.kind = "return" THEN "done" ELSE "error"]
    /\ UNCHANGED <<pools, puts, df, pc, now, cache, reqs, http, hist>>

\* the sidebar: two of the networks, two positions of the slider
Networks == {"ethereum", "bsc"}
Limits == {10, 50}

\* what the API may answer
Outcomes ==
    {Transport("ConnectionError"), Transport("Timeout"), Status("4xx"), Status("5xx"),
     Body(FALSE, <<>>), Body(TRUE, <<>>), Body(TRUE, <<sample_pool>>)}

\* the answers the dashboard is run against: one per way get_data can end
DashOutcomes ==
    {Transport("Timeout"), Status("5xx"), Body(FALSE, <<>>), Body(TRUE, <<sample_pool>>)}

InitDash ==
    /\ pools = <<>>
    /\ puts = 0
    /\ df = NoTable
    /\ res = NoResult
    /\ last = NoCall
    /\ pc = "dashboard"
    /\ DashIdle

NextDash ==
    \/ Tick
    \/ \E network \in Networks, limit \in Limits, refresh_button \in BOOLEAN,
          auto_refresh \in BOOLEAN, outcome \in DashOutcomes \cup {NoOutcome} :
           Render(network, limit, refresh_button, auto_refresh, outcome)
    \/ BarChart
    \/ BubbleChart

SpecDash == InitDash /\ [][NextDash]_vars

(***************************************************************************)
(* SpecFetch: the smoke test of fetch_data.py, with get_pools called for   *)
(* any network, page size and page, then the conversion of what it         *)
(* returned.                                                               *)
(***************************************************************************)
Pages == {1, 2}

GetPools(network, limit, page, outcome) ==
    /\ pc = "build"
    /\ reqs < MaxReqs
    /\ reqs' = reqs + 1
    /\ http' = [network |-> network, limit |-> limit, page |-> page, reqs0 |-> reqs,
                outcome |-> outcome, got |-> get_pools(outcome)]
    /\ pools' = IF http'.got.kind = "return" THEN http'.got.data ELSE pools
    /\ last' = Call("get_pools", page, <<>>)
    /\ UNCHANGED <<puts, df, res, pc, now, cache, cyc, hist>>

InitFetch ==
    /\ pools = <<>>
    /\ puts = 0
    /\ df = NoTable
    /\ res = NoResult
    /\ last = NoCall
    /\ pc = "build"
    /\ DashIdle

NextFetch ==
    \/ \E network \in Networks, limit \in Limits, page \in Pages, outcome \in Outcomes :
           GetPools(network, limit, page, outcome)
    \/ PoolsToDataframe

SpecFetch == InitFetch /\ [][NextFetch]_vars

C8_CacheReuse ==
    cyc.stage # "idle" =>
        LET fresh == /\ cyc.h0.at >= 0
                     /\ ~cyc.h0.cleared
                     /\ ~cyc.button
                     /\ cyc.t - cyc.h0.at < REFRESH_INTERVAL
        IN  IF fresh
            THEN cyc.hit /\ reqs = cyc.reqs0 /\ df = cyc.h0.table
            ELSE ~cyc.hit /\ reqs = cyc.reqs0 + 1

\* a table reused two ticks after it was stored
C8_Witness ==
    /\ cyc.hit
    /\ cyc.t - cyc.h0.at = 2 * TickStep
    /\ Len(df.rows) = 1

\* C10: in a render cycle whose fetch brought at least one pool, the table
\* of get_data has every column the bar chart and the bubble chart read,
\* and the cycle never stops in a missing-column error.
C10_ChartColumns ==
    (cyc.stage # "idle" /\ ~cyc.hit /\ Len(df.rows) >= 1) =>
        /\ {"pair", "volume_usd_24h", "tvl_usd", "price_change_pct_24h"} \subseteq ColSet(df)
        /\ ~(cyc.stage = "error" /\ res.exc \in {"KeyError", "ValueError"})

====
